---- MODULE Spec2Model ----
(***************************************************************************)
(* Model of the WorkerPool scheduler (src/unnamed/part_001): a pool of     *)
(* web workers with lazy spawning, idle cleanup, a FIFO wait queue,        *)
(* per-request timeouts and crash recovery.                                *)
(*                                                                         *)
(* The pool runs on one thread, so every handler (a public method, a       *)
(* worker's onmessage/onerror, a timer callback) is one atomic action.     *)
(* A handler is written as a composition of operators on a record S that   *)
(* holds the pool's fields; the action installs the final record.          *)
(*                                                                         *)
(* Environment: a terminated worker delivers no further event             *)
(* (Worker.terminate() stops the worker and its messages at once), and a   *)
(* worker answers the messages posted to it one at a time, in order.       *)
(*                                                                         *)
(* The second part models one execution unit, the message handler of       *)
(* src/src/workers/pointGenerator.worker.ts: the unit* variables hold the  *)
(* message it is handling, the responses it posted for that message and    *)
(* the buffers it can still read.  SpecWorker runs the unit alone.         *)
(***************************************************************************)
EXTENDS Integers, Sequences, FiniteSets, TLC

\* ------------------------------------------------------------------ bounds
MaxRequests == 3      \* generatePoints is called at most this many times
MaxPool == 2          \* largest pool size passed to the constructor or setMaxPoolSize
MaxTicks == 1         \* the clock advances at most this many times

\* ------------------------------------------------------- program constants
RequestTimeoutMs == 20000     \* this.requestTimeoutMs
IdleTimeout == 30000          \* this.idleTimeout
InitialMinWorkers == 1        \* this.minWorkers
CleanupIntervalMs == 10000    \* setInterval period of the idle sweep

\* The clock is read at this granularity: one step takes every running
\* request past its deadline and every untouched worker past the idle threshold.
TickMs == 4 * CleanupIntervalMs

WorkerIds == 1..(MaxPool + 1)     \* identities of Worker objects
RequestIds == 1..MaxRequests
SizeInputs == 0..MaxPool          \* arguments given as a pool size

VARIABLES
    workers,            \* Worker[]: the live workers, in creation order
    queue,              \* QueuedRequest[]: request ids waiting for a worker
    activeWorkers,      \* Set<Worker>
    requestIdCounter,
    pendingRequests,    \* keys of Map<number, PendingRequest>
    workerToRequestId,  \* Map<Worker, number>
    workerLastUsed,     \* Map<Worker, number>
    maxPoolSize,
    minWorkers,
    cleanupInterval,    \* TRUE while the sweep's setInterval is live
    timers,             \* live setTimeout handles: [requestId, worker, deadline]
    inbox,              \* per worker: requests posted to it and not yet answered
    future,             \* per request id: state of the promise generatePoints returned
    posted,             \* request ids ever passed to worker.postMessage
    resettled,          \* request ids whose resolve/reject was called after the promise settled
    now,                \* Date.now()
    unitPhase,          \* "idle", "running" (in self.onmessage), "done", "terminated"
    unitRequest,        \* e.data of the message being handled, or NoRequest
    unitPosted,         \* messages the unit posted for unitRequest, in order
    unitHeld,           \* buffers the unit allocated for unitRequest and can still read
    unitAllocated,      \* generateData's allocation was entered for unitRequest
    unitGenerated,      \* generateData's main loop ran for unitRequest
    unitCurve,          \* curveFn: the function generateData selected for unitRequest
    loopFormat,         \* main loop: dataFormat of the call, "none" before the first
    loopI,              \* main loop: the next point index i
    loopX,              \* main loop: the x array filled so far
    loopYs,             \* main loop: the values stored in the line's array so far
    loopYMin,           \* main loop: yMin
    loopYMax,           \* main loop: yMax
    genRng,             \* the worker module's rngState
    genRequest,         \* the request whose random draws genSeries holds
    genSeries,          \* the series elements generated for genRequest, in draw order
    genWarm,            \* the unit had handled a request before genRequest
    panel               \* one PlotPanel: its refs and state, and the App state it reads

vars == <<workers, queue, activeWorkers, requestIdCounter, pendingRequests,
          workerToRequestId, workerLastUsed, maxPoolSize, minWorkers,
          cleanupInterval, timers, inbox, future, posted, resettled, now,
          unitPhase, unitRequest, unitPosted, unitHeld, unitAllocated,
          unitGenerated, unitCurve,
          loopFormat, loopI, loopX, loopYs, loopYMin, loopYMax,
          genRng, genRequest, genSeries, genWarm, panel>>

poolVars == <<workers, queue, activeWorkers, requestIdCounter, pendingRequests,
              workerToRequestId, workerLastUsed, maxPoolSize, minWorkers,
              cleanupInterval, timers, inbox, future, posted, resettled, now>>

unitVars == <<unitPhase, unitRequest, unitPosted, unitHeld, unitAllocated,
              unitGenerated, unitCurve>>

loopVars == <<loopFormat, loopI, loopX, loopYs, loopYMin, loopYMax>>

genVars == <<genRng, genRequest, genSeries, genWarm>>

\* ----------------------------------------------------------------- helpers
Range(s) == {s[i] : i \in DOMAIN s}

Min(a, b) == IF a < b THEN a ELSE b

Max(a, b) == IF a > b THEN a ELSE b

Filter(s, w) == SelectSeq(s, LAMBDA x : x # w)

MapSet(m, k, v) == [x \in (DOMAIN m) \cup {k} |-> IF x = k THEN v ELSE m[x]]

MapDelete(m, k) == [x \in (DOMAIN m) \ {k} |-> m[x]]

EmptyMap == [x \in {} |-> 0]

NoInbox == [w \in WorkerIds |-> <<>>]

\* Math.max(1, Math.floor(n || 1))
NormalizeSize(n) == Max(1, IF n = 0 THEN 1 ELSE n)

\* The pool's fields as one record, with the bookkeeping of the running
\* handler: ret (the value the last call returned, 0 for null), dead (the
\* workers this handler terminated).
Pool ==
    [ workers |-> workers, queue |-> queue, activeWorkers |-> activeWorkers,
      requestIdCounter |-> requestIdCounter, pendingRequests |-> pendingRequests,
      workerToRequestId |-> workerToRequestId, workerLastUsed |-> workerLastUsed,
      maxPoolSize |-> maxPoolSize, minWorkers |-> minWorkers,
      cleanupInterval |-> cleanupInterval, timers |-> timers, inbox |-> inbox,
      future |-> future, posted |-> posted, now |-> now,
      ret |-> 0, dead |-> {}, resettled |-> resettled ]

Install(S) ==
    /\ workers' = S.workers
    /\ queue' = S.queue
    /\ activeWorkers' = S.activeWorkers
    /\ requestIdCounter' = S.requestIdCounter
    /\ pendingRequests' = S.pendingRequests
    /\ workerToRequestId' = S.workerToRequestId
    /\ workerLastUsed' = S.workerLastUsed
    /\ maxPoolSize' = S.maxPoolSize
    /\ minWorkers' = S.minWorkers
    /\ cleanupInterval' = S.cleanupInterval
    /\ timers' = S.timers
    /\ inbox' = S.inbox
    /\ future' = S.future
    /\ posted' = S.posted
    /\ resettled' = S.resettled
    /\ UNCHANGED <<unitVars, loopVars, genVars, panel>>

\* ---------------------------------------------------------- pool internals
\* worker.terminate(): the worker stops; nothing posted to it is answered.
TerminateWorker(S, w) ==
    [S EXCEPT !.inbox[w] = <<>>, !.dead = @ \cup {w}]

\* clearTimeout(timeoutId) of request r's timer
ClearTimeout(S, r) ==
    [S EXCEPT !.timers = {t \in @ : t.requestId # r}]

\* resolve(...) or reject(...) of request r's promise.  A promise settles
\* once: a later call changes nothing, and is recorded in resettled.
Settle(S, r, how) ==
    IF S.future[r] = "unsettled"
    THEN [S EXCEPT !.future[r] = how]
    ELSE [S EXCEPT !.resettled = @ \cup {r}]

removeWorker(S, w) ==
    TerminateWorker(
        [S EXCEPT !.workers = Filter(@, w),
                  !.workerLastUsed = MapDelete(@, w),
                  !.workerToRequestId = MapDelete(@, w)], w)

\* new Worker(): an object distinct from every worker the pool holds or has
\* just terminated
FreshWorker(S) ==
    CHOOSE w \in WorkerIds :
        /\ w \notin Range(S.workers) \cup S.dead
        /\ \A v \in WorkerIds : v \notin Range(S.workers) \cup S.dead => w <= v

createWorker(S) ==
    IF Len(S.workers) >= S.maxPoolSize
    THEN [S EXCEPT !.ret = 0]
    ELSE LET w == FreshWorker(S) IN
         [S EXCEPT !.workers = Append(@, w),
                   !.workerLastUsed = MapSet(@, w, S.now),
                   !.ret = w]

\* FindIdle with the activeWorkers test dropped: the first worker, busy or not
FindIdle_AnyWorker(S) ==
    IF S.workers # <<>> THEN S.workers[1] ELSE 0

\* this.workers.find((w) => !this.activeWorkers.has(w)), 0 when there is none
FindIdle(S) ==
    IF \E i \in DOMAIN S.workers : S.workers[i] \notin S.activeWorkers
    THEN S.workers[CHOOSE i \in DOMAIN S.workers :
                       /\ S.workers[i] \notin S.activeWorkers
                       /\ \A j \in DOMAIN S.workers :
                              S.workers[j] \notin S.activeWorkers => i <= j]
    ELSE 0

\* getAvailableWorker spawning whenever no worker is idle, whatever maxPoolSize
getAvailableWorker_IgnoreMax(S) ==
    LET idle == FindIdle(S)
        w == FreshWorker(S)
    IN  IF idle = 0
        THEN [S EXCEPT !.workers = Append(@, w),
                       !.workerLastUsed = MapSet(@, w, S.now),
                       !.ret = w]
        ELSE [S EXCEPT !.ret = idle]

\* getAvailableWorker spawning while capacity is left, idle worker or not
getAvailableWorker_SpawnFirst(S) ==
    IF Len(S.workers) < S.maxPoolSize
    THEN createWorker(S)
    ELSE [S EXCEPT !.ret = FindIdle(S)]

getAvailableWorker(S) ==
    LET idle == FindIdle(S) IN
    IF idle = 0 /\ Len(S.workers) < S.maxPoolSize
    THEN createWorker(S)
    ELSE [S EXCEPT !.ret = idle]

\* dispatchToWorker without the workerToRequestId entry
dispatchToWorker_NoOwner(S, w, r) ==
    [S EXCEPT !.activeWorkers = @ \cup {w},
              !.timers = @ \cup {[requestId |-> r, worker |-> w,
                                  deadline |-> S.now + RequestTimeoutMs]},
              !.pendingRequests = @ \cup {r},
              !.inbox[w] = Append(@, r),
              !.posted = @ \cup {r}]

\* _dispatchToWorker(worker, request)
dispatchToWorker(S, w, r) ==
    [S EXCEPT !.activeWorkers = @ \cup {w},
              !.workerToRequestId = MapSet(@, w, r),
              !.timers = @ \cup {[requestId |-> r, worker |-> w,
                                  deadline |-> S.now + RequestTimeoutMs]},
              !.pendingRequests = @ \cup {r},
              !.inbox[w] = Append(@, r),
              !.posted = @ \cup {r}]

processQueue(S) ==
    IF Len(S.queue) = 0
    THEN S
    ELSE LET A == getAvailableWorker(S) IN
         IF A.ret # 0
         THEN dispatchToWorker([A EXCEPT !.queue = Tail(@)],
                               A.ret, Head(S.queue))
         ELSE A

\* ------------------------------------------------------ the execution unit
\* pointGenerator.worker.ts, self.onmessage and what it calls.

MAX_POINTS == 10000000
MAX_LINES == 1000
MAX_BYTES == 512 * 1024 * 1024

\* A count in a message is any JavaScript integer; it is kept as two digits
\* in base Word, value hi * Word + lo with lo in 0..Word-1, so that counts
\* beyond 32 bits are at hand and  | 0  is computed as the engine computes it.
Word == 65536

Num(n) == [hi |-> n \div Word, lo |-> n % Word]

\* n | 0 : the low 32 bits of n read as a signed integer
ToInt32(v) ==
    LET h == v.hi % Word
    IN  (IF h >= Word \div 2 THEN h - Word ELSE h) * Word + v.lo

\* numPoints values a message carries
PointInputs ==
    {Num(n) : n \in {-1, 0, 9, 10, 11, 67041, 67042, 134083, 134084, 2097152,
                     2097153, 4194304, 4194305, 8388608, 8388609,
                     10000000, 10000001}}
        \cup {[hi |-> Word \div 2, lo |-> 0], [hi |-> Word, lo |-> 100]}

\* numLines values a message carries
LineInputs ==
    {Num(n) : n \in {0, 1, 2, 15, 31, 1000, 1001}} \cup {[hi |-> Word, lo |-> 3]}

DataFormats == {"float32", "float64", "json"}

\* the keys of the curveFunctions object literal
CurveNames ==
    {"loss", "sin", "accuracy", "linear", "exponential", "logarithmic", "cosine",
     "polynomial", "randomWalk", "step", "sigmoid", "tanh", "dampedSine",
     "sawtooth", "gaussian", "logistic"}

\* Keys every object literal inherits from Object.prototype (some of them).
\* All but __proto__ name a function; __proto__ yields Object.prototype itself.
ObjectPrototypeKeys ==
    {"constructor", "toString", "valueOf", "hasOwnProperty", "__proto__"}

\* curveType values a message carries
CurveInputs == CurveNames \cup ObjectPrototypeKeys \cup {"", "sine", "SIN"}

\* WorkerRequest (types.ts): every combination of counts and format with the
\* sin curve, and every curveType with one small request
UnitMessages ==
    [requestId : RequestIds, numPoints : PointInputs, numLines : LineInputs,
     curveType : {"sin"}, dataFormat : DataFormats]
        \cup [requestId : {1}, numPoints : {Num(10)}, numLines : {Num(2)},
              curveType : CurveInputs, dataFormat : {"float32"}]

NoRequest ==
    [requestId |-> 0, numPoints |-> Num(0), numLines |-> Num(0),
     curveType |-> "sin", dataFormat |-> "none"]

\* What can go wrong inside the try block once the size check has passed:
\* new ArrayType(points) throws a RangeError when the engine cannot allocate,
\* JSON.stringify throws when the string would be too long.
Faults == {"none", "alloc", "stringify"}

NoBuffer == -1                     \* x: null

\* a value of the curveFunctions lookup: the property found and the object
\* that holds it
OwnCurve(name) == [holder |-> "curveFunctions", key |-> name]

NoCurve == [holder |-> "", key |-> ""]

\* const defaultCurve = curveFunctions.sin
defaultCurve == OwnCurve("sin")

\* curveFunctions[curveType]: an own property, else one found on the
\* prototype chain, else undefined
curveLookup(curveType) ==
    IF curveType \in CurveNames THEN OwnCurve(curveType)
    ELSE IF curveType \in ObjectPrototypeKeys
    THEN [holder |-> "Object.prototype", key |-> curveType]
    ELSE NoCurve

\* curveFunctions[curveType] || defaultCurve: every value the lookup finds is
\* an object or a function, hence truthy
selectCurve(curveType) ==
    IF curveLookup(curveType) = NoCurve THEN defaultCurve ELSE curveLookup(curveType)

\* typeof curveFn === "function"
Callable(fn) == fn # NoCurve /\ fn.key # "__proto__"

\* an ArrayType that is Float32Array for every format
ArrayType_AlwaysFloat32(dataFormat) == "Float32Array"

\* const ArrayType = dataFormat === "float64" ? Float64Array : Float32Array
ArrayType(dataFormat) ==
    IF dataFormat = "float64" THEN "Float64Array" ELSE "Float32Array"

BYTES_PER_ELEMENT(type) == IF type = "Float64Array" THEN 8 ELSE 4

\* the handler's locals and effects, at its entry; heap gives the byteLength
\* of each buffer allocated
Unit0 ==
    [ posted |-> <<>>, held |-> {}, allocated |-> FALSE, generated |-> FALSE,
      threw |-> "", x |-> NoBuffer, ys |-> <<>>, heap |-> <<>>, curveFn |-> NoCurve ]

clampPoints(numPoints) == Max(10, Min(MAX_POINTS, ToInt32(numPoints)))

clampLines(numLines) == Max(1, Min(MAX_LINES, ToInt32(numLines)))

\* the estimate taking every format for 4 bytes wide
bytesPerElement_Always4(dataFormat) == 4

bytesPerElement(dataFormat) == IF dataFormat = "float64" THEN 8 ELSE 4

\* (1 + lines) * points * bytesPerElement.  The engine computes it in doubles,
\* exactly (it is below 2^53); here it is a two-digit number in base Limb.
Limb == 4096

estBytes(lines, points, bpe) ==
    LET k == (1 + lines) * bpe
        ph == points \div Limb
        pl == points % Limb
    IN  [hi |-> ph * k + (pl * k) \div Limb, lo |-> (pl * k) % Limb]

\* estBytes > n
ExceedsBytes(est, n) ==
    \/ est.hi > n \div Limb
    \/ est.hi = n \div Limb /\ est.lo > n % Limb

\* self.postMessage(message, transfer): the message is queued for the
\* scheduler and every buffer of the transfer list is detached from the unit
postMessage(U, message, transfer) ==
    [U EXCEPT !.posted =
                  Append(@, [message |-> message, transfer |-> transfer,
                             byteLength |-> [b \in Range(transfer) |-> U.heap[b]]]),
              !.held = @ \ Range(transfer)]

\* a catch block that swallows the error
catchBlock_Silent(U, requestId, error) == U

\* the catch block: one error response
catchBlock(U, requestId, error) ==
    postMessage(U, [requestId |-> requestId, success |-> FALSE, error |-> error], <<>>)

\* generateData: allocates x (buffer 0) and one array per line (buffers
\* 1..lines), selects the curve function once, then fills the arrays; the
\* first call of a curveFn that is no function throws a TypeError
generateData(U, points, lines, curveType, dataFormat, fault) ==
    LET bytes == points * BYTES_PER_ELEMENT(ArrayType(dataFormat))
        A == [U EXCEPT !.allocated = TRUE, !.held = 0..lines,
                       !.heap = [b \in 0..lines |-> bytes],
                       !.curveFn = selectCurve(curveType)]
    IN  IF fault = "alloc"
        THEN [U EXCEPT !.allocated = TRUE, !.threw = "Array buffer allocation failed"]
        ELSE IF ~Callable(A.curveFn)
        THEN [A EXCEPT !.threw = "curveFn is not a function"]
        ELSE [A EXCEPT !.generated = TRUE, !.x = 0, !.ys = [li \in 1..lines |-> li]]

\* a transfer list that names the x buffer only
TransferList_OnlyX(x, ys) == <<x>>

\* [x.buffer, ...yBuffers]
TransferList(x, ys) == <<x>> \o ys

\* self.onmessage
workerOnMessage(msg, fault) ==
    LET points == clampPoints(msg.numPoints)
        lines == clampLines(msg.numLines)
        est == estBytes(lines, points, bytesPerElement(msg.dataFormat))
        G == generateData(Unit0, points, lines, msg.curveType, msg.dataFormat, fault)
        success == [ requestId |-> msg.requestId, success |-> TRUE,
                     length |-> points, numLines |-> lines,
                     curveType |-> msg.curveType, dataFormat |-> msg.dataFormat,
                     xMin |-> 0, xMax |-> points - 1 ]
    IN  IF ExceedsBytes(est, MAX_BYTES)
        THEN catchBlock(Unit0, msg.requestId, "Data too large")
        ELSE IF G.threw # ""
        THEN catchBlock(G, msg.requestId, G.threw)
        ELSE IF msg.dataFormat = "json"
        THEN IF fault = "stringify"
             THEN catchBlock(G, msg.requestId, "Invalid string length")
             ELSE postMessage(G, [x |-> NoBuffer, ys |-> <<>>, ysString |-> TRUE]
                                     @@ success, <<>>)
        ELSE postMessage(G, [x |-> G.x, ys |-> G.ys, ysString |-> FALSE] @@ success,
                         TransferList(G.x, G.ys))

\* Scheduler side, worker.onmessage for a float32 / float64 success message:
\* new Float64Array(buffer) / new Float32Array(buffer) is a view of the whole
\* buffer, byteLength / BYTES_PER_ELEMENT elements long
TypedView(type, buffer, byteLength) ==
    [type |-> type, buffer |-> buffer, length |-> byteLength \div BYTES_PER_ELEMENT(type)]

\* resultData = [xArray, ...yArrays] for the posted entry p
resultData(p) ==
    LET m == p.message
        type == IF m.dataFormat = "float64" THEN "Float64Array" ELSE "Float32Array"
    IN  <<TypedView(type, m.x, p.byteLength[m.x])>>
            \o [i \in 1..Len(m.ys) |-> TypedView(type, m.ys[i], p.byteLength[m.ys[i]])]

UnitInit ==
    /\ unitPhase = "idle"
    /\ unitRequest = NoRequest
    /\ unitPosted = <<>>
    /\ unitHeld = {}
    /\ unitAllocated = FALSE
    /\ unitGenerated = FALSE
    /\ unitCurve = NoCurve

\* a message event is delivered: the handler is entered with e.data = msg
UnitReceive(msg) ==
    /\ unitPhase \in {"idle", "done"}
    /\ unitPhase' = "running"
    /\ unitRequest' = msg
    /\ unitPosted' = <<>>
    /\ unitHeld' = {}
    /\ unitAllocated' = FALSE
    /\ unitGenerated' = FALSE
    /\ unitCurve' = NoCurve
    /\ UNCHANGED <<poolVars, loopVars, genVars, panel>>

\* the handler runs to its end
UnitRun(fault) ==
    /\ unitPhase = "running"
    /\ fault = "stringify" => unitRequest.dataFormat = "json"
    /\ LET U == workerOnMessage(unitRequest, fault)
       IN  /\ unitPosted' = U.posted
           /\ unitHeld' = U.held
           /\ unitAllocated' = U.allocated
           /\ unitGenerated' = U.generated
           /\ unitCurve' = U.curveFn
    /\ unitPhase' = "done"
    /\ UNCHANGED <<unitRequest, poolVars, loopVars, genVars, panel>>

\* the scheduler calls worker.terminate(): the unit stops where it is
UnitTerminated ==
    /\ unitPhase # "terminated"
    /\ unitPhase' = "terminated"
    /\ UNCHANGED <<unitRequest, unitPosted, unitHeld, unitAllocated, unitGenerated,
                   unitCurve, poolVars, loopVars, genVars, panel>>

\* ------------------------------------------------- the generator's numbers
\* generateData's main loop, with the values it computes.  A curve value v is
\* a double the model does not compute: each step takes one from
\* DoubleInputs.  Doubles are counted in units fine enough for all of them;
\* the float32 numbers are the even ones, so an odd double lies half-way
\* between two float32 neighbours and is rounded to the one whose last
\* mantissa bit is 0, a multiple of 4.  NaN is not among the values.
LoopPoints == 10                \* points, at its minimum after the clamp
LoopLines == 1                  \* lines

DoubleInputs == -3..3

PosInfinity == 100              \* Infinity: above every double

NegInfinity == -100             \* -Infinity

\* Math.fround
fround(v) ==
    IF v % 2 = 0 THEN v
    ELSE IF (v + 1) % 4 = 0 THEN v + 1
    ELSE v - 1

\* array[i] = v for an array of the given type
StoreElement(type, v) == IF type = "Float32Array" THEN fround(v) ELSE v

LoopInit ==
    /\ loopFormat = "none"
    /\ loopI = 0
    /\ loopX = <<>>
    /\ loopYs = {}
    /\ loopYMin = PosInfinity
    /\ loopYMax = NegInfinity

\* generateData is entered: arrays allocated, yMin = Infinity, yMax = -Infinity
LoopStart(dataFormat) ==
    /\ loopFormat = "none" \/ loopI = LoopPoints
    /\ loopFormat' = dataFormat
    /\ loopI' = 0
    /\ loopX' = <<>>
    /\ loopYs' = {}
    /\ loopYMin' = PosInfinity
    /\ loopYMax' = NegInfinity
    /\ UNCHANGED <<poolVars, unitVars, genVars, panel>>

\* one turn of the main loop for point i (one line): the value v is stored
\* into the line's array and folded into yMin and yMax
LoopStep(v) ==
    /\ loopFormat # "none"
    /\ loopI < LoopPoints
    /\ loopX' = Append(loopX, loopI)      \* x[i] = i, exact below 2^24
    /\ loopYs' = loopYs \cup {StoreElement(ArrayType(loopFormat), v)}
    /\ loopYMin' = (IF v < loopYMin THEN v ELSE loopYMin)
    /\ loopYMax' = (IF v > loopYMax THEN v ELSE loopYMax)
    /\ loopI' = loopI + 1
    /\ UNCHANGED <<loopFormat, poolVars, unitVars, genVars, panel>>

NextLoop ==
    \/ \E dataFormat \in DataFormats : LoopStart(dataFormat)
    \/ \E v \in DoubleInputs : LoopStep(v)

\* --------------------------------------------- the generator's random draws
\* The xorshift32 generator and the seeding of self.onmessage, on 32-bit
\* words kept as two 16-bit halves.  What a curve function makes of a draw is
\* not computed: a series element is the term (point, line, draw, earlier
\* draws of the line for randomWalk), and equal terms are equal numbers for
\* equal request parameters.
Word32(hi, lo) == [hi |-> hi, lo |-> lo]

\* let rngState = 1
InitialRng == Word32(0, 1)

\* a ^ b bit by bit
RECURSIVE XorBits(_, _)
XorBits(a, b) ==
    IF a = 0 /\ b = 0 THEN 0
    ELSE (((a % 2) + (b % 2)) % 2) + 2 * XorBits(a \div 2, b \div 2)

\* a ^ b for 4-bit a and b, tabulated
XorNibble == [a \in 0..15 |-> [b \in 0..15 |-> XorBits(a, b)]]

\* a ^ b for 16-bit a and b
Xor16(a, b) ==
    XorNibble[a % 16][b % 16]
    + 16 * XorNibble[(a \div 16) % 16][(b \div 16) % 16]
    + 256 * XorNibble[(a \div 256) % 16][(b \div 256) % 16]
    + 4096 * XorNibble[a \div 4096][b \div 4096]

\* a ^ b
Xor32(a, b) == Word32(Xor16(a.hi, b.hi), Xor16(a.lo, b.lo))

\* a << 13
Shl13(a) == Word32((a.hi * 8192 + a.lo \div 8) % Word, (a.lo * 8192) % Word)

\* a >>> 17
Shr17(a) == Word32(0, a.hi \div 2)

\* a << 5
Shl5(a) == Word32((a.hi * 32 + a.lo \div 2048) % Word, (a.lo * 32) % Word)

\* the rngState after one random() call; the call returns it as a fraction
\* of 2^32
random(state) ==
    LET s1 == Xor32(state, Shl13(state))
        s2 == Xor32(s1, Shr17(s1))
    IN  Xor32(s2, Shl5(s2))

\* (requestId * 2654435761 + Date.now()) | 0, the clock given in base Word
seedOf(requestId, clock) ==
    LET lo == requestId * 31153 + clock.lo
        hi == requestId * 40503 + clock.hi + lo \div Word
    IN  Word32(hi % Word, lo % Word)

\* seedRng leaving rngState as it is
seedRng_Keep(state, seed) == state

\* seedRng(seed || 1): rngState = seed | 0 || 1
seedRng(state, seed) == IF seed = Word32(0, 0) THEN Word32(0, 1) ELSE seed

\* Date.now() values
ClockInputs ==
    {[hi |-> 25939941, lo |-> 26624], [hi |-> 25939941, lo |-> 26625],
     [hi |-> 25032, lo |-> 34383]}

\* requests whose generation is followed draw by draw
GenRequests ==
    [requestId : RequestIds, clock : ClockInputs, points : {10, 11},
     lines : {1, 2}, curveType : {"sin", "randomWalk"}]

NoGenRequest ==
    [requestId |-> 0, clock |-> Num(0), points |-> 0, lines |-> 0, curveType |-> ""]

\* one turn of the main loop of req: L holds the rngState, per line the
\* draws added to walkState so far, and the series elements generated so
\* far; draw k belongs to point k \div lines and line k % lines
loopTurn(req, L) ==
    LET k == Len(L.series)
        li == k % req.lines
        s == random(L.rng)
        w == IF req.curveType = "randomWalk"
             THEN [L.walk EXCEPT ![li] = Append(@, s)]
             ELSE L.walk
        term == [i |-> k \div req.lines, li |-> li, noise |-> s, walk |-> w[li]]
    IN  [rng |-> s, walk |-> w, series |-> Append(L.series, term)]

\* the main loop, from the turn L stands before
RECURSIVE mainLoop(_, _)
mainLoop(req, L) ==
    IF Len(L.series) = req.points * req.lines THEN L
    ELSE mainLoop(req, loopTurn(req, L))

\* self.onmessage for req on a unit whose rngState is state: the seeding,
\* then generateData with a fresh walkState
generateSeries(state, req) ==
    mainLoop(req,
             [rng |-> seedRng(state, seedOf(req.requestId, req.clock)),
              walk |-> [li \in 0..(req.lines - 1) |-> <<>>],
              series |-> <<>>])

GenInit ==
    /\ genRng = InitialRng
    /\ genRequest = NoGenRequest
    /\ genSeries = <<>>
    /\ genWarm = FALSE

\* the unit handles req to the end
Generate(req) ==
    /\ LET G == generateSeries(genRng, req)
       IN  /\ genRng' = G.rng
           /\ genSeries' = G.series
    /\ genRequest' = req
    /\ genWarm' = (genRequest # NoGenRequest)
    /\ UNCHANGED <<poolVars, unitVars, loopVars, panel>>

NextGen == \E req \in GenRequests : Generate(req)

\* ------------------------------------------------------------ a plot panel
\* One PlotPanel and the App state it reads.  The pool is there from the
\* panel's first render on; a generatePoints future is settled by the pool at
\* any later time, or never.  The three generation parameters are one value.
MaxParam == 1           \* the parameter values are 0..MaxParam
MaxToken == 3           \* regenerateToken is incremented up to this value

ParamInputs == 0..MaxParam

NoData == -1            \* plotRef.current is null: the panel shows no plot

\* the panel after its first commit: useRef/useState initial values, the
\* regenerateToken effect has run once and started the first setTimeout(0)
Panel0 ==
    [ params |-> 0,                 \* App: numPoints, numLines, dataFormat
      regenerateToken |-> 1,        \* App: regenerateToken
      lastRegenerateToken |-> 1,    \* lastRegenerateTokenRef.current
      timeouts |-> 1,               \* setTimeout(0) callbacks not yet run
      isRegenerating |-> FALSE,     \* isRegeneratingRef.current
      runToken |-> 0,               \* runTokenRef.current
      requests |-> {},              \* generatePoints futures not yet settled
      isMounted |-> TRUE,           \* isMountedRef.current
      container |-> TRUE,           \* containerRef.current is the panel's div
      isLoading |-> TRUE,
      isGenerating |-> FALSE,
      shown |-> NoData,             \* the parameters of the data in the plot
      outcome |-> "none" ]          \* how the last settled request ended

\* doRegenerate without the isRegeneratingRef test
doRegenerate_NoGuard(P) ==
    IF ~P.container THEN P
    ELSE [P EXCEPT !.isRegenerating = TRUE,
                   !.runToken = @ + 1,
                   !.isGenerating = TRUE,
                   !.requests = @ \cup {[thisToken |-> P.runToken + 1,
                                         params |-> P.params]}]

\* doRegenerate up to the await: the closure is the one of the latest render,
\* so the request carries the current parameters
doRegenerate(P) ==
    IF ~P.container THEN P
    ELSE IF P.isRegenerating THEN P
    ELSE [P EXCEPT !.isRegenerating = TRUE,
                   !.runToken = @ + 1,
                   !.isGenerating = TRUE,
                   !.requests = @ \cup {[thisToken |-> P.runToken + 1,
                                         params |-> P.params]}]

\* doRegenerate after the await, the future of request q resolved
onFulfilled(P, q) ==
    LET P1 == [P EXCEPT !.requests = @ \ {q}] IN
    IF ~P1.isMounted \/ P1.runToken # q.thisToken
    THEN [P1 EXCEPT !.isRegenerating = FALSE, !.outcome = "stale"]
    ELSE IF ~P1.container
    THEN [P1 EXCEPT !.isRegenerating = FALSE, !.outcome = "nocontainer"]
    ELSE [P1 EXCEPT !.shown = q.params,
                    !.isLoading = FALSE,
                    !.isGenerating = FALSE,
                    !.isRegenerating = FALSE,
                    !.outcome = "success"]

\* the catch block of doRegenerate, the future of request q rejected
onRejected(P, q) ==
    LET P1 == [P EXCEPT !.requests = @ \ {q}, !.outcome = "rejected"] IN
    IF P1.isMounted
    THEN [P1 EXCEPT !.isGenerating = FALSE, !.isLoading = FALSE,
                    !.isRegenerating = FALSE]
    ELSE [P1 EXCEPT !.isRegenerating = FALSE]

\* the regenerateToken effect of a panel that is still rendered
tokenEffect(P) ==
    IF P.container /\ P.regenerateToken # P.lastRegenerateToken
    THEN [P EXCEPT !.lastRegenerateToken = P.regenerateToken,
                   !.timeouts = @ + 1]
    ELSE P

PanelInit == panel = Panel0

\* the user changes a generation parameter: App re-renders, its effect
\* increments regenerateToken, the panel re-renders and its effect runs
ChangeParams(p) ==
    /\ p # panel.params
    /\ panel.regenerateToken < MaxToken
    /\ panel' = tokenEffect([panel EXCEPT !.params = p,
                                          !.regenerateToken = @ + 1])
    /\ UNCHANGED <<poolVars, unitVars, loopVars, genVars>>

\* "Regenerate All", and App's parameter effect on its first commit
RegenerateAll ==
    /\ panel.regenerateToken < MaxToken
    /\ panel' = tokenEffect([panel EXCEPT !.regenerateToken = @ + 1])
    /\ UNCHANGED <<poolVars, unitVars, loopVars, genVars>>

\* a setTimeout(0) callback of the regenerateToken effect runs
TimeoutRuns ==
    /\ panel.timeouts > 0
    /\ panel' = doRegenerate([panel EXCEPT !.timeouts = @ - 1])
    /\ UNCHANGED <<poolVars, unitVars, loopVars, genVars>>

\* the panel's regenerate button, enabled unless generating or loading
ManualRegenerate ==
    /\ panel.container
    /\ ~panel.isGenerating /\ ~panel.isLoading
    /\ panel.runToken < MaxToken
    /\ panel' = doRegenerate(panel)
    /\ UNCHANGED <<poolVars, unitVars, loopVars, genVars>>

FutureResolves(q) ==
    /\ q \in panel.requests
    /\ panel' = onFulfilled(panel, q)
    /\ UNCHANGED <<poolVars, unitVars, loopVars, genVars>>

FutureRejects(q) ==
    /\ q \in panel.requests
    /\ panel' = onRejected(panel, q)
    /\ UNCHANGED <<poolVars, unitVars, loopVars, genVars>>

\* the panel is removed: React detaches the div from containerRef ...
Detach ==
    /\ panel.container
    /\ panel' = [panel EXCEPT !.container = FALSE]
    /\ UNCHANGED <<poolVars, unitVars, loopVars, genVars>>

\* ... and later runs the cleanup of the mount effect
MountCleanup ==
    /\ ~panel.container
    /\ panel.isMounted
    /\ panel' = [panel EXCEPT !.isMounted = FALSE,
                              !.runToken = @ + 1,
                              !.shown = NoData]
    /\ UNCHANGED <<poolVars, unitVars, loopVars, genVars>>

NextPanel ==
    \/ \E p \in ParamInputs : ChangeParams(p)
    \/ RegenerateAll
    \/ TimeoutRuns
    \/ ManualRegenerate
    \/ \E q \in panel.requests : FutureResolves(q)
    \/ \E q \in panel.requests : FutureRejects(q)
    \/ Detach
    \/ MountCleanup

\* -------------------------------------------------------------- the actions
Init ==
    /\ now = 0
    /\ \E n \in SizeInputs :
        LET S0 == [ workers |-> <<>>, queue |-> <<>>, activeWorkers |-> {},
                    requestIdCounter |-> 0, pendingRequests |-> {},
                    workerToRequestId |-> EmptyMap, workerLastUsed |-> EmptyMap,
                    maxPoolSize |-> NormalizeSize(n),
                    minWorkers |-> InitialMinWorkers,
                    cleanupInterval |-> TRUE, timers |-> {}, inbox |-> NoInbox,
                    future |-> [r \in RequestIds |-> "none"], posted |-> {},
                    now |-> 0, ret |-> 0, dead |-> {}, resettled |-> {} ]
            S1 == createWorker(S0)
        IN  /\ workers = S1.workers
            /\ queue = S1.queue
            /\ activeWorkers = S1.activeWorkers
            /\ requestIdCounter = S1.requestIdCounter
            /\ pendingRequests = S1.pendingRequests
            /\ workerToRequestId = S1.workerToRequestId
            /\ workerLastUsed = S1.workerLastUsed
            /\ maxPoolSize = S1.maxPoolSize
            /\ minWorkers = S1.minWorkers
            /\ cleanupInterval = S1.cleanupInterval
            /\ timers = S1.timers
            /\ inbox = S1.inbox
            /\ future = S1.future
            /\ posted = S1.posted
            /\ resettled = S1.resettled
    /\ UnitInit
    /\ LoopInit
    /\ GenInit
    /\ PanelInit

Tick ==
    /\ now < MaxTicks * TickMs
    /\ now' = now + TickMs
    /\ UNCHANGED <<workers, queue, activeWorkers, requestIdCounter, pendingRequests,
                   workerToRequestId, workerLastUsed, maxPoolSize, minWorkers,
                   cleanupInterval, timers, inbox, future, posted, resettled>>
    /\ UNCHANGED <<unitVars, loopVars, genVars, panel>>

\* generatePoints starting the request's timer when it queues the request
generatePoints_TimerWhenQueued(S) ==
    LET r == S.requestIdCounter + 1
        S1 == [S EXCEPT !.requestIdCounter = r, !.future[r] = "unsettled", !.ret = r]
        A == getAvailableWorker(S1)
    IN  IF A.ret # 0
        THEN [dispatchToWorker(A, A.ret, r) EXCEPT !.ret = r]
        ELSE [A EXCEPT !.queue = Append(@, r), !.ret = r,
                       !.pendingRequests = @ \cup {r},
                       !.timers = @ \cup {[requestId |-> r, worker |-> 0,
                                           deadline |-> S.now + RequestTimeoutMs]}]

\* generatePoints turning the request away when no worker can take it
generatePoints_RejectWhenBusy(S) ==
    LET r == S.requestIdCounter + 1
        S1 == [S EXCEPT !.requestIdCounter = r, !.future[r] = "unsettled", !.ret = r]
        A == getAvailableWorker(S1)
    IN  IF A.ret # 0
        THEN [dispatchToWorker(A, A.ret, r) EXCEPT !.ret = r]
        ELSE [A EXCEPT !.future[r] = "rejected_error", !.ret = r]

\* generatePoints taking the counter as it is once it is past zero
generatePoints_ReuseId(S) ==
    LET r == IF S.requestIdCounter = 0 THEN 1 ELSE S.requestIdCounter
        S1 == [S EXCEPT !.requestIdCounter = r, !.future[r] = "unsettled", !.ret = r]
        A == getAvailableWorker(S1)
    IN  IF A.ret # 0
        THEN [dispatchToWorker(A, A.ret, r) EXCEPT !.ret = r]
        ELSE [A EXCEPT !.queue = Append(@, r), !.ret = r]

\* generatePoints(numPoints, numLines, curveType, dataFormat): the request's
\* payload plays no part in scheduling; the request is its id.
generatePoints(S) ==
    LET r == S.requestIdCounter + 1
        S1 == [S EXCEPT !.requestIdCounter = r, !.future[r] = "unsettled", !.ret = r]
        A == getAvailableWorker(S1)
    IN  IF A.ret # 0
        THEN [dispatchToWorker(A, A.ret, r) EXCEPT !.ret = r]
        ELSE [A EXCEPT !.queue = Append(@, r), !.ret = r]

GeneratePoints ==
    /\ requestIdCounter < MaxRequests
    /\ Install(generatePoints(Pool))
    /\ UNCHANGED now

\* onmessage treating an error message as a crash: the worker is removed
onmessage_ErrorRemovesWorker(S, w, r, ok) ==
    LET S1 == [S EXCEPT !.workerLastUsed = MapSet(@, w, S.now)]
        S2 == IF r \in S1.pendingRequests
              THEN Settle(
                       ClearTimeout(
                           [S1 EXCEPT !.pendingRequests = @ \ {r},
                                      !.activeWorkers = @ \ {w},
                                      !.workerToRequestId = MapDelete(@, w)], r),
                       r, IF ok THEN "resolved" ELSE "rejected_error")
              ELSE S1
        S3 == IF ok THEN S2 ELSE removeWorker(S2, w)
    IN  processQueue(S3)

\* onmessage settling the future and leaving its pending entry and timer
onmessage_KeepsEntry(S, w, r, ok) ==
    LET S1 == [S EXCEPT !.workerLastUsed = MapSet(@, w, S.now)]
    IN  processQueue(
            IF r \in S1.pendingRequests
            THEN Settle(S1, r, IF ok THEN "resolved" ELSE "rejected_error")
            ELSE S1)

\* onmessage leaving the worker's last-used time as it was
onmessage_NoTouch(S, w, r, ok) ==
    processQueue(
        IF r \in S.pendingRequests
        THEN Settle(
                 ClearTimeout(
                     [S EXCEPT !.pendingRequests = @ \ {r},
                               !.activeWorkers = @ \ {w},
                               !.workerToRequestId = MapDelete(@, w)], r),
                 r, IF ok THEN "resolved" ELSE "rejected_error")
        ELSE S)

\* onmessage without the closing processQueue call
onmessage_NoDrain(S, w, r, ok) ==
    LET S1 == [S EXCEPT !.workerLastUsed = MapSet(@, w, S.now)]
    IN  IF r \in S1.pendingRequests
        THEN Settle(
                 ClearTimeout(
                     [S1 EXCEPT !.pendingRequests = @ \ {r},
                                !.activeWorkers = @ \ {w},
                                !.workerToRequestId = MapDelete(@, w)], r),
                 r, IF ok THEN "resolved" ELSE "rejected_error")
        ELSE S1

\* worker.onmessage with e.data = {requestId: r, success: ok}
onmessage(S, w, r, ok) ==
    LET S1 == [S EXCEPT !.workerLastUsed = MapSet(@, w, S.now)]
        S2 == IF r \in S1.pendingRequests
              THEN Settle(
                       ClearTimeout(
                           [S1 EXCEPT !.pendingRequests = @ \ {r},
                                      !.activeWorkers = @ \ {w},
                                      !.workerToRequestId = MapDelete(@, w)], r),
                       r, IF ok THEN "resolved" ELSE "rejected_error")
              ELSE S1
    IN  processQueue(S2)

\* Worker w answers the oldest request posted to it, with success or failure.
OnMessage(w, ok) ==
    /\ w \in Range(workers)
    /\ inbox[w] # <<>>
    /\ Install(onmessage([Pool EXCEPT !.inbox[w] = Tail(@)], w, Head(inbox[w]), ok))
    /\ UNCHANGED now

\* onerror leaving the timer of the crashed worker's request running
onerror_KeepTimer(S, w) ==
    LET has == w \in DOMAIN S.workerToRequestId
        r == IF has THEN S.workerToRequestId[w] ELSE 0
        S1 == IF has /\ r \in S.pendingRequests
              THEN Settle([S EXCEPT !.pendingRequests = @ \ {r}], r, "rejected_crash")
              ELSE S
        S2 == TerminateWorker(
                  [S1 EXCEPT !.activeWorkers = @ \ {w},
                             !.workerToRequestId = MapDelete(@, w),
                             !.workerLastUsed = MapDelete(@, w),
                             !.workers = Filter(@, w)], w)
        S3 == IF Len(S2.workers) < S2.minWorkers THEN createWorker(S2) ELSE S2
    IN  processQueue(S3)

\* onerror without the replacement of the crashed worker
onerror_NoRespawn(S, w) ==
    LET has == w \in DOMAIN S.workerToRequestId
        r == IF has THEN S.workerToRequestId[w] ELSE 0
        S1 == IF has /\ r \in S.pendingRequests
              THEN Settle(ClearTimeout([S EXCEPT !.pendingRequests = @ \ {r}], r),
                          r, "rejected_crash")
              ELSE S
    IN  processQueue(
            TerminateWorker(
                [S1 EXCEPT !.activeWorkers = @ \ {w},
                           !.workerToRequestId = MapDelete(@, w),
                           !.workerLastUsed = MapDelete(@, w),
                           !.workers = Filter(@, w)], w))

\* onerror leaving the crashed worker in activeWorkers
onerror_KeepsActive(S, w) ==
    LET has == w \in DOMAIN S.workerToRequestId
        r == IF has THEN S.workerToRequestId[w] ELSE 0
        S1 == IF has /\ r \in S.pendingRequests
              THEN Settle(ClearTimeout([S EXCEPT !.pendingRequests = @ \ {r}], r),
                          r, "rejected_crash")
              ELSE S
        S2 == TerminateWorker(
                  [S1 EXCEPT !.workerToRequestId = MapDelete(@, w),
                             !.workerLastUsed = MapDelete(@, w),
                             !.workers = Filter(@, w)], w)
        S3 == IF Len(S2.workers) < S2.minWorkers THEN createWorker(S2) ELSE S2
    IN  processQueue(S3)

\* onerror creating a worker after every crash, floor or not
onerror_AlwaysRespawn(S, w) ==
    LET has == w \in DOMAIN S.workerToRequestId
        r == IF has THEN S.workerToRequestId[w] ELSE 0
        S1 == IF has /\ r \in S.pendingRequests
              THEN Settle(ClearTimeout([S EXCEPT !.pendingRequests = @ \ {r}], r),
                          r, "rejected_crash")
              ELSE S
        S2 == TerminateWorker(
                  [S1 EXCEPT !.activeWorkers = @ \ {w},
                             !.workerToRequestId = MapDelete(@, w),
                             !.workerLastUsed = MapDelete(@, w),
                             !.workers = Filter(@, w)], w)
    IN  processQueue(createWorker(S2))

\* worker.onerror (also reached from worker.onmessageerror)
onerror(S, w) ==
    LET has == w \in DOMAIN S.workerToRequestId
        r == IF has THEN S.workerToRequestId[w] ELSE 0
        S1 == IF has /\ r \in S.pendingRequests
              THEN Settle(ClearTimeout([S EXCEPT !.pendingRequests = @ \ {r}], r),
                          r, "rejected_crash")
              ELSE S
        S2 == TerminateWorker(
                  [S1 EXCEPT !.activeWorkers = @ \ {w},
                             !.workerToRequestId = MapDelete(@, w),
                             !.workerLastUsed = MapDelete(@, w),
                             !.workers = Filter(@, w)], w)
        S3 == IF Len(S2.workers) < S2.minWorkers THEN createWorker(S2) ELSE S2
    IN  processQueue(S3)

OnError(w) ==
    /\ w \in Range(workers)
    /\ Install(onerror(Pool, w))
    /\ UNCHANGED now

\* timeoutCallback rejecting every pending request, not only its own
RECURSIVE RejectPending(_, _)
RejectPending(S, rs) ==
    IF rs = {} THEN S
    ELSE LET r == CHOOSE x \in rs : TRUE IN
         RejectPending(Settle(S, r, "rejected_timeout"), rs \ {r})

timeoutCallback_RejectsAll(S, t) ==
    LET r == t.requestId
        w == t.worker
    IN  IF r \notin S.pendingRequests
        THEN S
        ELSE LET S1 == RejectPending([S EXCEPT !.pendingRequests = @ \ {r},
                                               !.activeWorkers = @ \ {w},
                                               !.workerToRequestId = MapDelete(@, w)],
                                     S.pendingRequests)
                 S2 == removeWorker(S1, w)
                 S3 == IF Len(S2.workers) < S2.minWorkers THEN createWorker(S2) ELSE S2
             IN  processQueue(S3)

\* timeoutCallback without the closing processQueue call
timeoutCallback_NoDrain(S, t) ==
    LET r == t.requestId
        w == t.worker
    IN  IF r \notin S.pendingRequests
        THEN S
        ELSE LET S1 == Settle([S EXCEPT !.pendingRequests = @ \ {r},
                                        !.activeWorkers = @ \ {w},
                                        !.workerToRequestId = MapDelete(@, w)],
                              r, "rejected_timeout")
                 S2 == removeWorker(S1, w)
             IN  IF Len(S2.workers) < S2.minWorkers THEN createWorker(S2) ELSE S2

\* timeoutCallback without the test that its request is still pending
timeoutCallback_NoGuard(S, t) ==
    LET r == t.requestId
        w == t.worker
        S1 == Settle([S EXCEPT !.pendingRequests = @ \ {r},
                               !.activeWorkers = @ \ {w},
                               !.workerToRequestId = MapDelete(@, w)],
                     r, "rejected_timeout")
        S2 == removeWorker(S1, w)
        S3 == IF Len(S2.workers) < S2.minWorkers THEN createWorker(S2) ELSE S2
    IN  processQueue(S3)

\* timeoutCallback without the replacement of the terminated worker
timeoutCallback_NoRespawn(S, t) ==
    LET r == t.requestId
        w == t.worker
    IN  IF r \notin S.pendingRequests
        THEN S
        ELSE processQueue(
                 removeWorker(
                     Settle([S EXCEPT !.pendingRequests = @ \ {r},
                                      !.activeWorkers = @ \ {w},
                                      !.workerToRequestId = MapDelete(@, w)],
                            r, "rejected_timeout"), w))

\* the setTimeout callback of _dispatchToWorker, for timer t
timeoutCallback(S, t) ==
    LET r == t.requestId
        w == t.worker
    IN  IF r \notin S.pendingRequests
        THEN S
        ELSE LET S1 == Settle([S EXCEPT !.pendingRequests = @ \ {r},
                                        !.activeWorkers = @ \ {w},
                                        !.workerToRequestId = MapDelete(@, w)],
                              r, "rejected_timeout")
                 S2 == removeWorker(S1, w)
                 S3 == IF Len(S2.workers) < S2.minWorkers THEN createWorker(S2) ELSE S2
             IN  processQueue(S3)

\* A live timer fires at or after its deadline.
Timeout(t) ==
    /\ t \in timers
    /\ now >= t.deadline
    /\ Install(timeoutCallback([Pool EXCEPT !.timers = @ \ {t}], t))
    /\ UNCHANGED now

\* LastUsedOr0 never finding the entry
LastUsedOr0_Missing(S, w) == 0

\* this.workerLastUsed.get(worker) || 0
LastUsedOr0(S, w) == IF w \in DOMAIN S.workerLastUsed THEN S.workerLastUsed[w] ELSE 0

\* first loop of cleanupIdleWorkers: the workers to remove, in pool order
RECURSIVE CollectIdle(_, _)
CollectIdle(S, i) ==
    IF i > Len(S.workers) THEN <<>>
    ELSE LET w == S.workers[i] IN
         IF w \in S.activeWorkers THEN CollectIdle(S, i + 1)
         ELSE IF Len(S.workers) <= S.minWorkers THEN <<>>
         ELSE IF S.now - LastUsedOr0(S, w) > IdleTimeout
              THEN <<w>> \o CollectIdle(S, i + 1)
              ELSE CollectIdle(S, i + 1)

\* second loop of cleanupIdleWorkers
\* RemoveCollected without the floor test of the second loop
RECURSIVE RemoveCollected_NoFloor(_, _)
RemoveCollected_NoFloor(S, ws) ==
    IF ws = <<>> THEN S
    ELSE RemoveCollected_NoFloor(removeWorker(S, Head(ws)), Tail(ws))

RECURSIVE RemoveCollected(_, _)
RemoveCollected(S, ws) ==
    IF ws = <<>> \/ Len(S.workers) <= S.minWorkers THEN S
    ELSE RemoveCollected(removeWorker(S, Head(ws)), Tail(ws))

cleanupIdleWorkers(S) == RemoveCollected(S, CollectIdle(S, 1))

\* the setInterval callback of startIdleCleanup
CleanupIdleWorkers ==
    /\ cleanupInterval
    /\ Install(cleanupIdleWorkers(Pool))
    /\ UNCHANGED now

\* RemoveIdleOverMax removing the first worker, idle or not
RECURSIVE RemoveAnyOverMax(_)
RemoveAnyOverMax(S) ==
    IF Len(S.workers) > S.maxPoolSize
    THEN RemoveAnyOverMax(removeWorker(S, S.workers[1]))
    ELSE S

\* the while loop of setMaxPoolSize
RECURSIVE RemoveIdleOverMax(_)
RemoveIdleOverMax(S) ==
    IF Len(S.workers) > S.maxPoolSize /\ FindIdle(S) # 0
    THEN RemoveIdleOverMax(removeWorker(S, FindIdle(S)))
    ELSE S

\* setMaxPoolSize without the loop that removes idle workers over the maximum
setMaxPoolSize_KeepIdle(S, n) ==
    [S EXCEPT !.maxPoolSize = NormalizeSize(n),
              !.minWorkers = Min(@, NormalizeSize(n))]

setMaxPoolSize(S, n) ==
    LET S1 == RemoveIdleOverMax([S EXCEPT !.maxPoolSize = NormalizeSize(n)])
    IN  [S1 EXCEPT !.minWorkers = Min(@, S1.maxPoolSize)]

SetMaxPoolSize(n) ==
    /\ Install(setMaxPoolSize(Pool, n))
    /\ UNCHANGED now

RECURSIVE RejectAll(_, _)
RejectAll(S, q) ==
    IF q = <<>> THEN S
    ELSE RejectAll(Settle(S, Head(q), "rejected_terminated"), Tail(q))

terminate(S) ==
    LET S1 == RejectAll([S EXCEPT !.cleanupInterval = FALSE], S.queue)
    IN  [S1 EXCEPT !.queue = <<>>,
                   !.workers = <<>>,
                   !.inbox = NoInbox,
                   !.dead = @ \cup Range(S.workers),
                   !.activeWorkers = {},
                   !.timers = {t \in @ : t.requestId \notin S.pendingRequests},
                   !.pendingRequests = {},
                   !.workerToRequestId = EmptyMap,
                   !.workerLastUsed = EmptyMap]

\* getStats(): the counters it reports for the pool S
getStats(S) ==
    [ maxPoolSize |-> S.maxPoolSize,
      currentWorkers |-> Len(S.workers),
      activeWorkers |-> Cardinality(S.activeWorkers),
      idleWorkers |-> Len(S.workers) - Cardinality(S.activeWorkers),
      queueLength |-> Len(S.queue),
      pendingRequests |-> Cardinality(S.pendingRequests) ]

Terminate ==
    /\ Install(terminate(Pool))
    /\ UNCHANGED now

Next ==
    \/ GeneratePoints
    \/ \E w \in WorkerIds, ok \in BOOLEAN : OnMessage(w, ok)
    \/ \E w \in WorkerIds : OnError(w)
    \/ \E t \in timers : Timeout(t)
    \/ CleanupIdleWorkers
    \/ \E n \in SizeInputs : SetMaxPoolSize(n)
    \/ Terminate
    \/ Tick

Spec == Init /\ [][Next]_vars

\* The pool without terminate(), for what eventually happens.  A timer that
\* is not cleared fires after requestTimeoutMs, however late the request was
\* dispatched: its callback runs without reference to the bounded clock.
TimeoutElapsed(t) ==
    /\ t \in timers
    /\ Install(timeoutCallback([Pool EXCEPT !.timers = @ \ {t}], t))
    /\ UNCHANGED now

SomeTimeoutElapsed == \E t \in timers : TimeoutElapsed(t)

NextLive ==
    \/ GeneratePoints
    \/ \E w \in WorkerIds, ok \in BOOLEAN : OnMessage(w, ok)
    \/ \E w \in WorkerIds : OnError(w)
    \/ SomeTimeoutElapsed
    \/ CleanupIdleWorkers
    \/ \E n \in SizeInputs : SetMaxPoolSize(n)
    \/ Tick

\* setTimeout runs the callback of every timer that is not cleared; workers
\* need not answer.  This is weak fairness of SomeTimeoutElapsed, which is
\* enabled exactly while a timer is live and always removes one.
TimersRun == []<>(timers = {}) \/ []<><<SomeTimeoutElapsed>>_vars

SpecLive == Init /\ [][NextLive]_vars /\ TimersRun

\* the execution unit on its own
InitWorker == Init /\ maxPoolSize = 1

NextWorker ==
    \/ \E msg \in UnitMessages : UnitReceive(msg)
    \/ \E fault \in Faults : UnitRun(fault)
    \/ UnitTerminated

SpecWorker == InitWorker /\ [][NextWorker]_vars

\* generateData's main loop on its own
SpecLoop == InitWorker /\ [][NextLoop]_vars

\* the unit's random draws on their own
SpecGen == InitWorker /\ [][NextGen]_vars

\* the panel on its own
SpecPanel == InitWorker /\ [][NextPanel]_vars

\* ------------------------------------------------------------ sanity checks
TypeOK ==
    /\ Range(workers) \subseteq WorkerIds
    /\ Len(workers) = Cardinality(Range(workers))
    /\ activeWorkers \subseteq Range(workers)
    /\ DOMAIN workerLastUsed = Range(workers)
    /\ DOMAIN workerToRequestId = activeWorkers
    /\ \A t \in timers : t.worker \in activeWorkers /\ t.requestId \in pendingRequests
    /\ Range(queue) \subseteq 1..requestIdCounter
    /\ minWorkers = 1
    /\ maxPoolSize \in 1..MaxPool

\* --------------------------------------------------------------- vocabulary
\* terminate() has run: it is the only code that clears cleanupInterval
Terminated == ~cleanupInterval

HasTimer(r) == \E t \in timers : t.requestId = r

IdleWorkers == Range(workers) \ activeWorkers

\* a worker could be handed out: an idle one exists or one may be spawned
WorkerAvailable == IdleWorkers # {} \/ Len(workers) < maxPoolSize

\* this step took the head of the queue and dispatched it
DequeuesHead == queue # <<>> /\ queue' = Tail(queue) /\ Head(queue) \in posted' \ posted

\* ------------------------------------------------------------------- claims
\* C1: no silent drop: every future returned by generatePoints is eventually
\* settled. A future is settled only through the resolve/reject pair held by
\* its queue entry or by its pendingRequests entry, so the claim requires that
\* an unsettled future is always held by one of the two (and, when pending,
\* that its timer is live). Stated as that invariant, which a finite run
\* refutes.
C1_NoSilentDrop ==
    \A r \in RequestIds :
        future[r] = "unsettled" =>
            \/ r \in Range(queue)
            \/ r \in pendingRequests /\ HasTimer(r)

\* C2: terminate() rejects every queued and every pending request with the
\* pool-shutdown error, cancels every request timer and the sweep timer,
\* terminates every worker and leaves workers, queue, activeWorkers and
\* pendingRequests empty.
C2_TerminateRejectsAll ==
    [][(cleanupInterval /\ ~cleanupInterval') =>
          /\ \A r \in Range(queue) \cup pendingRequests :
                 future'[r] = "rejected_terminated"
          /\ timers' = {}
          /\ inbox' = NoInbox
          /\ workers' = <<>> /\ queue' = <<>>
          /\ activeWorkers' = {} /\ pendingRequests' = {}]_vars

\* C3: the pool is unusable after terminate(): a generatePoints call made
\* after terminate() has run spawns no worker and dispatches no request.
C3_UnusableAfterTerminate ==
    [][(Terminated /\ requestIdCounter' # requestIdCounter) =>
          workers' = workers /\ posted' = posted]_vars

\* C4 as claimed: in every reachable state the number of live workers is at
\* most the configured maxPoolSize.
C4_NeverOverMax == Len(workers) <= maxPoolSize

\* C4 as amended: no step spawns a worker beyond maxPoolSize, and the pool
\* passes from within capacity to over capacity only in a step that lowers
\* maxPoolSize, which then leaves no idle worker and kills no active one.
C4_OverMaxOnlyByShrink ==
    [][/\ (Range(workers') \ Range(workers) # {}) => Len(workers') <= maxPoolSize'
       /\ (Len(workers) <= maxPoolSize /\ Len(workers') > maxPoolSize') =>
              /\ maxPoolSize' < maxPoolSize
              /\ Range(workers') = activeWorkers'
              /\ activeWorkers' = activeWorkers]_vars

C4_Witness == Len(workers) > maxPoolSize /\ Range(workers) = activeWorkers

\* C5: from construction until terminate() is called, after every handler the
\* number of live workers is at least minWorkers, so one warm worker exists.
C5_FloorUntilTerminate ==
    ~Terminated => Len(workers) >= minWorkers /\ Len(workers) >= InitialMinWorkers

\* a worker crashed with a request and the pool still holds its floor
C5_Witness ==
    /\ ~Terminated
    /\ \E r \in RequestIds : future[r] = "rejected_crash"
    /\ Len(workers) = minWorkers

C7_FifoDispatch ==
    [][\A r \in posted' \ posted : \A q \in Range(queue') : r < q]_vars

\* C8: at most one unanswered request per worker: no worker holds two posted
\* requests, two live timers or two pending requests.
C8_OneRequestPerWorker ==
    \A w \in WorkerIds :
        /\ Len(inbox[w]) <= 1
        /\ Cardinality({t \in timers : t.worker = w}) <= 1
        /\ Cardinality({r \in pendingRequests :
                           \E t \in timers : t.requestId = r /\ t.worker = w}) <= 1

\* every worker is busy while requests wait
C8_Witness ==
    /\ queue # <<>>
    /\ workers # <<>>
    /\ \A w \in Range(workers) : Len(inbox[w]) = 1 /\ w \in activeWorkers

\* C9: when the timer of a pending request fires, the future is rejected with
\* the timeout error, the worker is terminated and removed, the pool holds at
\* least minWorkers workers when the handler ends, and the queue was drained by
\* one request unless it was empty or no worker could be had.
C9_TimeoutHandler ==
    [][\A t \in timers :
          (t.requestId \in pendingRequests /\ Timeout(t)) =>
              /\ future[t.requestId] = "unsettled"
              /\ future'[t.requestId] = "rejected_timeout"
              /\ t.requestId \notin pendingRequests'
              /\ t.worker \notin Range(workers')
              /\ t.worker \notin activeWorkers'
              /\ inbox'[t.worker] = <<>>
              /\ Len(workers') >= minWorkers'
              /\ \/ queue = <<>> /\ queue' = <<>>
                 \/ DequeuesHead
                 \/ queue' = queue /\ ~WorkerAvailable']_vars

\* a request timed out and the pool holds a worker again
C9_Witness ==
    /\ \E r \in RequestIds : future[r] = "rejected_timeout"
    /\ Len(workers) >= minWorkers
    /\ ~Terminated

\* C10: the timeout clock starts at dispatch: a queued request has no timer and
\* an unsettled future, and only a request that was dispatched is ever rejected
\* with the timeout error.
C10_NoTimerInQueue ==
    /\ \A r \in Range(queue) :
           ~HasTimer(r) /\ r \notin posted /\ future[r] = "unsettled"
    /\ \A t \in timers : t.requestId \in posted
    /\ \A r \in RequestIds : future[r] = "rejected_timeout" => r \in posted

\* a request waits in the queue while a dispatched request is past its deadline
C10_Witness ==
    /\ queue # <<>>
    /\ \E t \in timers : now >= t.deadline

\* the request a worker owns according to workerToRequestId, 0 if none
OwnedBy(w) == IF w \in DOMAIN workerToRequestId THEN workerToRequestId[w] ELSE 0

\* the handler that ends in T took the head of the queue and dispatched it
Dequeued(T) ==
    queue # <<>> /\ T.queue = Tail(queue) /\ Head(queue) \in T.posted \ posted

\* the handler that ends in T drained the queue by one request, or there was
\* nothing to drain, or no worker could be had when it ended
DrainAttempted(T) ==
    \/ queue = <<>> /\ T.queue = <<>>
    \/ Dequeued(T)
    \/ /\ T.queue = queue
       /\ Range(T.workers) \subseteq T.activeWorkers
       /\ Len(T.workers) >= T.maxPoolSize

\* an idle worker whose last activity is older than the idle threshold
Expired(w) == w \in IdleWorkers /\ now - workerLastUsed[w] > IdleTimeout

\* C11: on a worker's crash signal the request it owns, if any, is rejected
\* and its timer cancelled, the worker leaves the pool and the active set, the
\* pool holds at least minWorkers workers when the handler ends, and a queue
\* drain is attempted.
C11_CrashHandler ==
    \A w \in Range(workers) :
        LET T == onerror(Pool, w)
            r == OwnedBy(w)
        IN  /\ r \in pendingRequests =>
                   /\ T.future[r] = "rejected_crash"
                   /\ r \notin T.pendingRequests
                   /\ \A t \in T.timers : t.requestId # r
            /\ w \notin Range(T.workers)
            /\ w \notin T.activeWorkers
            /\ w \in T.dead
            /\ T.inbox[w] = <<>>
            /\ Len(T.workers) >= T.minWorkers
            /\ DrainAttempted(T)

\* a request was lost to a crash and a request submitted after it is running
C11_Witness ==
    \E r \in RequestIds :
        /\ future[r] = "rejected_crash"
        /\ \E q \in pendingRequests : q > r
        /\ workers # <<>>

\* C12: a timeout or crash of one worker settles no future but the one of the
\* request that worker owns; every other pending request keeps its entry, its
\* timer and its worker, every other worker stays in the pool with its
\* last-used time, and the queue loses at most its head, which is dispatched.
FailureIsolated(T, w, r) ==
    /\ \A q \in RequestIds \ {r} : T.future[q] = future[q]
    /\ pendingRequests \ {r} \subseteq T.pendingRequests
    /\ {t \in timers : t.requestId # r} \subseteq T.timers
    /\ T.queue = queue \/ Dequeued(T)
    /\ T.pendingRequests \ pendingRequests \subseteq Range(queue) \ Range(T.queue)
    /\ T.dead \subseteq {w}
    /\ \A v \in Range(workers) \ {w} :
           /\ v \in Range(T.workers)
           /\ T.workerLastUsed[v] = workerLastUsed[v]
           /\ v \in activeWorkers =>
                  /\ v \in T.activeWorkers
                  /\ T.workerToRequestId[v] = workerToRequestId[v]
                  /\ T.inbox[v] = inbox[v]

C12_FailureIsolation ==
    /\ \A w \in Range(workers) :
           FailureIsolated(onerror(Pool, w), w, OwnedBy(w))
    /\ \A t \in timers :
           FailureIsolated(timeoutCallback([Pool EXCEPT !.timers = @ \ {t}], t),
                           t.worker, t.requestId)

\* one request failed by timeout or crash while an earlier one is still running
C12_Witness ==
    \E r \in RequestIds :
        /\ future[r] \in {"rejected_timeout", "rejected_crash"}
        /\ \E q \in pendingRequests : q < r /\ HasTimer(q)

\* C13: a worker's error message rejects the owning future with the reported
\* error and leaves the worker in the pool, unterminated and unreplaced, idle
\* or at once given the head of the queue.
C13_ErrorMessage ==
    \A w \in Range(workers) :
        (inbox[w] # <<>> /\ Head(inbox[w]) \in pendingRequests) =>
            LET r == Head(inbox[w])
                T == onmessage([Pool EXCEPT !.inbox[w] = Tail(@)], w, r, FALSE)
            IN  /\ T.future[r] = "rejected_error"
                /\ r \notin T.pendingRequests
                /\ \A t \in T.timers : t.requestId # r
                /\ T.workers = workers
                /\ T.dead = {}
                /\ T.workerLastUsed[w] = now
                /\ \/ w \notin T.activeWorkers /\ T.inbox[w] = <<>>
                   \/ /\ Dequeued(T)
                      /\ T.workerToRequestId[w] = Head(queue)
                      /\ T.inbox[w] = <<Head(queue)>>

\* a request was rejected by an error message and an idle worker is at hand
C13_Witness ==
    /\ \E r \in RequestIds : future[r] = "rejected_error"
    /\ IdleWorkers # {}
    /\ ~Terminated

\* C14: setMaxPoolSize(n) terminates idle workers only, as many as bring the
\* pool down to n or until none is idle; it terminates no active worker and
\* leaves the pending map, the timers, the futures and the queue unchanged.
\* Stated of the call made in any reachable state, for every argument.
C14_ShrinkOnlyIdle ==
    \A n \in SizeInputs :
        LET T == setMaxPoolSize(Pool, n) IN
        /\ T.maxPoolSize = NormalizeSize(n)
        /\ T.activeWorkers = activeWorkers
        /\ activeWorkers \subseteq Range(T.workers)
        /\ T.workers = SelectSeq(workers, LAMBDA w : w \in Range(T.workers))
        /\ T.dead = Range(workers) \ Range(T.workers)
        /\ T.dead \subseteq IdleWorkers
        /\ Len(T.workers) =
               IF Len(workers) <= T.maxPoolSize THEN Len(workers)
               ELSE Max(T.maxPoolSize, Cardinality(activeWorkers))
        /\ \A w \in activeWorkers : T.inbox[w] = inbox[w]
        /\ T.workerToRequestId = workerToRequestId
        /\ T.pendingRequests = pendingRequests
        /\ T.timers = timers
        /\ T.future = future
        /\ T.queue = queue

\* the pool is over its capacity while requests wait in the queue
C14_Witness ==
    /\ Len(workers) > maxPoolSize
    /\ queue # <<>>
    /\ pendingRequests # {}

\* C15: a worker left over capacity by setMaxPoolSize is reaped at its next
\* idle check once it has finished its request: whenever the pool is over
\* maxPoolSize and holds an idle worker, the sweep run in that state removes a
\* worker.
C15_ReapedAtNextSweep ==
    (cleanupInterval /\ Len(workers) > maxPoolSize /\ IdleWorkers # {}) =>
        Len(cleanupIdleWorkers(Pool).workers) < Len(workers)

\* C16: the idle sweep removes no active worker and leaves at least
\* minWorkers workers, whatever the last-used times; it touches neither the
\* requests nor the queue. Stated of the sweep run in any reachable state in
\* which its timer is live.
C16_SweepSafe ==
    cleanupInterval =>
        LET T == cleanupIdleWorkers(Pool) IN
        /\ T.activeWorkers = activeWorkers
        /\ activeWorkers \subseteq Range(T.workers)
        /\ Range(T.workers) \subseteq Range(workers)
        /\ T.dead \cap activeWorkers = {}
        /\ Len(T.workers) >= minWorkers
        /\ T.minWorkers = minWorkers
        /\ \A w \in activeWorkers : T.inbox[w] = inbox[w]
        /\ T.workerToRequestId = workerToRequestId
        /\ T.pendingRequests = pendingRequests
        /\ T.timers = timers
        /\ T.queue = queue

\* the sweep is live while one worker is busy and another is idle past the
\* threshold
C16_Witness ==
    /\ cleanupInterval
    /\ activeWorkers # {}
    /\ \E w \in Range(workers) : Expired(w)

\* C17 as claimed: every worker that is idle past the threshold when a sweep
\* runs with the pool above the floor is removed by that sweep.
C17_EveryExpiredRemoved ==
    cleanupInterval =>
        \A w \in Range(workers) :
            (Expired(w) /\ Len(workers) > minWorkers) =>
                w \notin Range(cleanupIdleWorkers(Pool).workers)

\* C17 as amended: the sweep removes the workers idle past the threshold in
\* pool order until the pool is down to minWorkers: it removes the first k of
\* them, k the smaller of their number and Len(workers) - minWorkers, and
\* keeps every other worker in place.
ExpiredBefore(i) == {j \in 1..(i - 1) : Expired(workers[j])}

SweepRemoves ==
    {workers[i] : i \in {j \in DOMAIN workers :
                            /\ Expired(workers[j])
                            /\ Cardinality(ExpiredBefore(j)) < Len(workers) - minWorkers}}

C17_ExpiredRemovedToFloor ==
    cleanupInterval =>
        LET T == cleanupIdleWorkers(Pool) IN
        /\ T.workers = SelectSeq(workers, LAMBDA w : w \notin SweepRemoves)
        /\ T.dead = SweepRemoves
        /\ DOMAIN T.workerLastUsed = Range(T.workers)

\* two workers are idle past the threshold while the sweep is live
C17_Witness ==
    /\ cleanupInterval
    /\ Cardinality({w \in Range(workers) : Expired(w)}) >= 2

\* the id the next generatePoints call gives its request
NextId == requestIdCounter + 1

\* requests that exist: generatePoints has returned their future
Issued == {r \in RequestIds : future[r] # "none"}

\* C24: a generatePoints call is accepted in every state and ends in one step
\* with its request either dispatched (pending, with a timer, posted to a
\* worker) or appended to the queue, its future unsettled; it settles no other
\* future and moves no other request.
C24_SubmitNeverBlocks ==
    requestIdCounter < MaxRequests =>
        LET T == generatePoints(Pool)
            r == T.ret
        IN  /\ T.future[r] = "unsettled"
            /\ \A q \in RequestIds \ {r} : T.future[q] = future[q]
            /\ \/ /\ r \in T.pendingRequests
                  /\ r \in T.posted
                  /\ \E t \in T.timers : t.requestId = r
                  /\ T.queue = queue
               \/ /\ T.queue = Append(queue, r)
                  /\ T.pendingRequests = pendingRequests
                  /\ T.timers = timers
            /\ pendingRequests \subseteq T.pendingRequests
            /\ timers \subseteq T.timers
            /\ T.dead = {}

\* the latest request was submitted with every worker busy and the pool full,
\* and waits in the queue
C24_Witness ==
    /\ ~Terminated
    /\ queue # <<>>
    /\ queue[Len(queue)] = requestIdCounter
    /\ IdleWorkers = {}
    /\ Len(workers) = maxPoolSize

\* C25: the counters of getStats agree with the pool: active + idle = current
\* with idle >= 0, every active worker is in workers, and queueLength and
\* pendingRequests are the sizes of the queue and of the pending map.
C25_StatsConsistent ==
    LET st == getStats(Pool) IN
    /\ st.activeWorkers + st.idleWorkers = st.currentWorkers
    /\ st.idleWorkers >= 0
    /\ st.idleWorkers = Cardinality(IdleWorkers)
    /\ activeWorkers \subseteq Range(workers)
    /\ st.currentWorkers = Cardinality(Range(workers))
    /\ st.queueLength = Len(queue)
    /\ st.pendingRequests = Cardinality(pendingRequests)

\* a worker was removed by a crash while another one stays active
C25_Witness ==
    /\ \E r \in RequestIds : future[r] = "rejected_crash"
    /\ activeWorkers # {}
    /\ IdleWorkers # {}

\* C26: request ids are unique and increase with submission: the ids issued
\* are exactly 1..requestIdCounter, the next call takes requestIdCounter + 1,
\* which no request has, and the queue holds distinct ids in increasing order,
\* none of them pending.
C26_UniqueIncreasingIds ==
    /\ Issued = 1..requestIdCounter
    /\ pendingRequests \cup Range(queue) \subseteq Issued
    /\ \A i, j \in DOMAIN queue : i < j => queue[i] < queue[j]
    /\ Range(queue) \cap pendingRequests = {}
    /\ requestIdCounter < MaxRequests =>
           LET T == generatePoints(Pool) IN
           /\ T.ret = NextId
           /\ T.ret \notin Issued
           /\ T.requestIdCounter = NextId
           /\ \A r \in Issued : r < T.ret

\* several requests exist, some dispatched and some queued
C26_Witness ==
    /\ requestIdCounter >= 3
    /\ queue # <<>>
    /\ pendingRequests # {}

\* the workers a handler that ends in T created
Created(T) == Range(T.workers) \ Range(workers)

C30_SubmitDecision ==
    requestIdCounter < MaxRequests =>
        LET T == generatePoints(Pool)
            r == T.ret
            dispatched == r \in T.pendingRequests
            owner == {w \in Range(T.workers) :
                          w \in DOMAIN T.workerToRequestId /\ T.workerToRequestId[w] = r}
        IN  /\ IdleWorkers # {} =>
                  /\ dispatched
                  /\ T.workers = workers
                  /\ owner \subseteq IdleWorkers
            /\ (IdleWorkers = {} /\ Len(workers) < maxPoolSize) =>
                  /\ dispatched
                  /\ Len(T.workers) = Len(workers) + 1
                  /\ owner = Created(T)
            /\ (IdleWorkers = {} /\ Len(workers) >= maxPoolSize) =>
                  /\ ~dispatched
                  /\ T.queue = Append(queue, r)
                  /\ T.workers = workers
            /\ dispatched =>
                  /\ Cardinality(owner) = 1
                  /\ owner \subseteq T.activeWorkers
                  /\ T.activeWorkers = activeWorkers \cup owner
                  /\ \A w \in owner :
                         /\ T.inbox[w] = Append(inbox[w], r)
                         /\ [requestId |-> r, worker |-> w,
                             deadline |-> now + RequestTimeoutMs] \in T.timers
                  /\ T.queue = queue
            /\ ~dispatched => T.timers = timers /\ T.activeWorkers = activeWorkers

\* a worker is idle while another is busy and a request can be submitted
C30_Witness ==
    /\ IdleWorkers # {}
    /\ activeWorkers # {}
    /\ ~Terminated
    /\ requestIdCounter < MaxRequests

\* C31: a success message for a pending request removes the pending entry,
\* cancels its timer and resolves the future in one handler run; the worker
\* is idle when the handler ends unless the queue was non-empty, in which case
\* the head of the queue is dispatched to a worker that was idle at that point
\* (the answering one or another).
C31_SuccessHandler ==
    \A w \in Range(workers) :
        (inbox[w] # <<>> /\ Head(inbox[w]) \in pendingRequests) =>
            LET r == Head(inbox[w])
                T == onmessage([Pool EXCEPT !.inbox[w] = Tail(@)], w, r, TRUE)
            IN  /\ T.future[r] = "resolved"
                /\ r \notin T.pendingRequests
                /\ \A t \in T.timers : t.requestId # r
                /\ T.workers = workers
                /\ T.dead = {}
                /\ IF queue = <<>>
                   THEN /\ w \notin T.activeWorkers
                        /\ T.queue = <<>>
                        /\ T.posted = posted
                   ELSE /\ Dequeued(T)
                        /\ \E v \in IdleWorkers \cup {w} :
                               /\ v \in T.activeWorkers
                               /\ T.workerToRequestId[v] = Head(queue)
                               /\ T.inbox[v] # <<>>
                               /\ T.inbox[v][Len(T.inbox[v])] = Head(queue)
                               /\ \E t \in T.timers : t.requestId = Head(queue) /\ t.worker = v

\* a request was answered with success, and another answer is due while a
\* request waits in the queue
C31_Witness ==
    /\ \E r \in RequestIds : future[r] = "resolved"
    /\ queue # <<>>
    /\ \E w \in Range(workers) : inbox[w] # <<>> /\ Head(inbox[w]) \in pendingRequests

\* C32: every message from a worker, success or error, sets the worker's
\* last-used time to the current time, and a sweep that runs less than the idle
\* threshold after the message does not remove the worker.
C32_MessageRefreshesIdleClock ==
    \A w \in Range(workers) : \A ok \in BOOLEAN :
        inbox[w] # <<>> =>
            LET T == onmessage([Pool EXCEPT !.inbox[w] = Tail(@)], w,
                               Head(inbox[w]), ok)
            IN  /\ T.workerLastUsed[w] = now
                /\ \A d \in {0, IdleTimeout - 1} :
                       w \in Range(cleanupIdleWorkers([T EXCEPT !.now = now + d]).workers)

\* a worker answered after the clock advanced, is idle, and the pool is above
\* its floor, so that a sweep could remove workers
C32_Witness ==
    /\ now > 0
    /\ Len(workers) > minWorkers
    /\ \E r \in RequestIds : future[r] \in {"resolved", "rejected_error"}
    /\ \E w \in IdleWorkers : workerLastUsed[w] = now
    /\ \E v \in IdleWorkers : workerLastUsed[v] < now

\* C33: work conservation: before terminate, while a request waits in the
\* queue no worker is idle and the pool is at its maximum size.
C33_WorkConservation ==
    (~Terminated /\ queue # <<>>) =>
        /\ IdleWorkers = {}
        /\ Len(workers) >= maxPoolSize

\* C34: the pending map, the active set and the worker-to-request map
\* correspond one to one: as many pending requests as active workers, every
\* active worker is in the pool and owns exactly one pending request, every
\* pending request is owned by exactly one active worker, and no request is
\* both queued and pending.
C34_PendingActiveBijection ==
    /\ Cardinality(pendingRequests) = Cardinality(activeWorkers)
    /\ activeWorkers \subseteq Range(workers)
    /\ DOMAIN workerToRequestId = activeWorkers
    /\ {workerToRequestId[w] : w \in DOMAIN workerToRequestId} = pendingRequests
    /\ \A v, w \in DOMAIN workerToRequestId :
           workerToRequestId[v] = workerToRequestId[w] => v = w
    /\ Range(queue) \cap pendingRequests = {}

\* two requests in flight on two workers while a third waits
C34_Witness ==
    /\ Cardinality(pendingRequests) = 2
    /\ Cardinality(activeWorkers) = 2
    /\ queue # <<>>

\* a timeout callback for request r dispatched to worker w, whether or not its
\* timer is still live
TimerOf(r, w) == [requestId |-> r, worker |-> w, deadline |-> now]

\* C35: no future is settled twice: whichever of the answer, the error
\* message, the timeout, the crash signal and terminate come for a request,
\* and in whatever order, resolve or reject is never called on a promise that
\* is already settled; the future of a pending or queued request is unsettled.
C35_SettledOnce ==
    /\ resettled = {}
    /\ \A r \in pendingRequests \cup Range(queue) : future[r] = "unsettled"

\* a request was settled and its worker now runs a later request, past the
\* settled request's deadline
C35_Witness ==
    \E r \in Issued : \E w \in activeWorkers :
        /\ future[r] \in {"resolved", "rejected_error"}
        /\ r \in posted
        /\ workerToRequestId[w] > r
        /\ now >= RequestTimeoutMs
        /\ queue # <<>>

\* C36: a timeout callback that runs for a request that is no longer pending
\* changes nothing: it rejects no future, terminates no worker and leaves the
\* worker it was started for, which may be running a later request, in place.
C36_StaleTimeoutNoEffect ==
    \A r \in Issued \ pendingRequests : \A w \in WorkerIds :
        timeoutCallback(Pool, TimerOf(r, w)) = Pool

\* a request was answered, its timeout has since passed, and the only worker
\* is running a later request
C36_Witness ==
    \E r \in posted \ pendingRequests :
        /\ future[r] = "resolved"
        /\ now >= RequestTimeoutMs
        /\ Len(workers) = 1
        /\ activeWorkers = Range(workers)
        /\ \A q \in pendingRequests : q > r

\* C37: queue liveness: when terminate() is never called, every request that
\* waits in the queue is eventually dispatched to a worker, whether the
\* workers ahead of it answer, crash or time out and whatever setMaxPoolSize
\* does meanwhile.  Requests leave the queue only from its head
\* (processQueue's shift), so this is: at every moment the queue is empty
\* again later, or the request at its head is posted to a worker later.
C37_QueueLiveness ==
    \/ []<>(queue = <<>>)
    \/ []<><<queue # <<>> /\ Head(queue) \in posted'>>_vars

\* a request timed out, a later one is with a worker and a third still waits
C37_Witness ==
    \E r \in RequestIds :
        /\ future[r] = "rejected_timeout"
        /\ \E q \in pendingRequests : q > r
        /\ queue # <<>>

\* ------------------------------------------------------ the unit's claims
\* the counts the unit works with for the message it is handling
UnitPoints == clampPoints(unitRequest.numPoints)

UnitLines == clampLines(unitRequest.numLines)

\* (1 + lines) * points * width > 512 MiB, by division: the cap is a multiple
\* of both widths
TooLarge ==
    UnitPoints >
        (MAX_BYTES \div (IF unitRequest.dataFormat = "float64" THEN 8 ELSE 4))
            \div (1 + UnitLines)

SizeError(p) == ~p.message.success /\ p.message.error = "Data too large"

\* C18: when the handler has run, a request whose clamped counts put the
\* estimate over 512 MiB got an error response with nothing allocated and
\* nothing generated, and a request whose estimate is at or below the cap
\* got no size error.
C18_SizeGuard ==
    unitPhase = "done" =>
        /\ TooLarge =>
              /\ Len(unitPosted) = 1
              /\ SizeError(unitPosted[1])
              /\ ~unitAllocated
              /\ ~unitGenerated
              /\ unitHeld = {}
        /\ ~TooLarge => \A i \in DOMAIN unitPosted : ~SizeError(unitPosted[i])

C18_Witness ==
    /\ unitPhase = "done"
    /\ TooLarge
    /\ unitRequest.dataFormat = "float64"
    /\ UnitPoints <= MAX_BYTES \div (4 * (1 + UnitLines))

\* C19 as stated: once a unit that received a message is no longer handling
\* it, it has posted exactly one response, carrying the message's requestId.
C19_EveryMessageAnswered ==
    (unitRequest # NoRequest /\ unitPhase # "running") =>
        /\ Len(unitPosted) = 1
        /\ unitPosted[1].message.requestId = unitRequest.requestId

\* C19: a handler that runs to its end has posted exactly one response, a
\* success or an error, with the message's requestId; a unit still in the
\* handler, or stopped inside it, has posted none.
C19_OneResponsePerRun ==
    /\ unitPhase = "done" =>
          /\ Len(unitPosted) = 1
          /\ unitPosted[1].message.requestId = unitRequest.requestId
          /\ unitPosted[1].message.success \in BOOLEAN
    /\ unitPhase = "running" => unitPosted = <<>>
    /\ Len(unitPosted) <= 1

C19_Witness ==
    /\ unitPhase = "done"
    /\ unitAllocated
    /\ unitPosted # <<>>
    /\ ~unitPosted[1].message.success

\* the buffers a success response names
Named(m) == (IF m.x = NoBuffer THEN {} ELSE {m.x}) \cup Range(m.ys)

\* C20: a binary success response names x and one buffer per line, its
\* transfer list holds exactly those buffers, each once, and the unit can
\* read none of them afterwards; a json success response names no buffer,
\* carries a string and has an empty transfer list.
C20_OwnershipTransfer ==
    \A i \in DOMAIN unitPosted :
        LET p == unitPosted[i]
            m == p.message
        IN  m.success =>
                IF m.dataFormat = "json"
                THEN /\ p.transfer = <<>>
                     /\ Named(m) = {}
                     /\ m.ysString
                ELSE /\ m.x # NoBuffer
                     /\ ~m.ysString
                     /\ Len(m.ys) = m.numLines
                     /\ Cardinality(Named(m)) = 1 + m.numLines
                     /\ Range(p.transfer) = Named(m)
                     /\ Len(p.transfer) = Cardinality(Named(m))
                     /\ Named(m) \cap unitHeld = {}

C20_Witness ==
    /\ unitPhase = "done"
    /\ unitPosted # <<>>
    /\ unitPosted[1].message.success
    /\ unitPosted[1].message.dataFormat = "float64"
    /\ unitPosted[1].message.numLines >= 2
    /\ unitPosted[1].transfer # <<>>

\* the response of a handler that ran to its end with a success
UnitSucceeded ==
    unitPhase = "done" /\ unitPosted # <<>> /\ unitPosted[1].message.success

\* C21: a binary success response carries one x buffer and one buffer per
\* line, each pointCount * width bytes long (width 8 for float64, else 4), and
\* the scheduler resolves with [x, y0, y1, ...]: 1 + lineCount arrays of
\* pointCount elements, the x array first and the series in line order.
C21_BufferLengths ==
    (UnitSucceeded /\ unitRequest.dataFormat # "json") =>
        LET p == unitPosted[1]
            m == p.message
            width == IF unitRequest.dataFormat = "float64" THEN 8 ELSE 4
            R == resultData(p)
        IN  /\ m.x # NoBuffer
            /\ Len(m.ys) = UnitLines
            /\ \A b \in Named(m) : p.byteLength[b] = UnitPoints * width
            /\ Len(R) = 1 + UnitLines
            /\ R[1].buffer = m.x
            /\ \A li \in 1..UnitLines :
                   /\ R[1 + li].buffer = m.ys[li]
                   /\ m.ys[li] = li
            /\ \A k \in DOMAIN R :
                   /\ R[k].length = UnitPoints
                   /\ R[k].length = m.length
                   /\ BYTES_PER_ELEMENT(R[k].type) = width

C21_Witness ==
    /\ UnitSucceeded
    /\ unitRequest.dataFormat = "float64"
    /\ UnitLines >= 15
    /\ UnitPoints > 10

\* what the clamp to [lo, hi] makes of the two-digit count v
ClampTo(v, lo, hi) ==
    IF v.hi < 0 THEN lo
    ELSE IF v.hi > hi \div Word \/ (v.hi = hi \div Word /\ v.lo >= hi % Word) THEN hi
    ELSE Max(lo, v.hi * Word + v.lo)

\* C22: the unit works with pointCount clamped to [10, 10,000,000] and
\* lineCount clamped to [1, 1000], whatever integers the message carries, and
\* a success response reports those counts.
C22_ClampedCounts ==
    unitPhase = "done" =>
        /\ UnitPoints = ClampTo(unitRequest.numPoints, 10, MAX_POINTS)
        /\ UnitLines = ClampTo(unitRequest.numLines, 1, MAX_LINES)
        /\ UnitSucceeded =>
               /\ unitPosted[1].message.length =
                      ClampTo(unitRequest.numPoints, 10, MAX_POINTS)
               /\ unitPosted[1].message.numLines =
                      ClampTo(unitRequest.numLines, 1, MAX_LINES)

\* C23: the curve function generateData selects is the one named by
\* curveType when that is one of the 16 names, and the sine function for
\* every other string.
C23_CurveSelection ==
    (unitPhase = "done" /\ unitAllocated /\ unitCurve # NoCurve) =>
        unitCurve = (IF unitRequest.curveType \in CurveNames
                     THEN OwnCurve(unitRequest.curveType)
                     ELSE OwnCurve("sin"))

\* C27: when generateData has run to the end, x[i] = i for every i, every
\* value stored in the series buffer lies between yMin and yMax, and both
\* bounds are finite.
C27_BoundsEncloseStored ==
    (loopFormat # "none" /\ loopI = LoopPoints) =>
        /\ \A k \in 1..Len(loopX) : loopX[k] = k - 1
        /\ Len(loopX) = LoopPoints
        /\ \A y \in loopYs : loopYMin <= y /\ y <= loopYMax
        /\ loopYMin > NegInfinity /\ loopYMin < PosInfinity
        /\ loopYMax > NegInfinity /\ loopYMax < PosInfinity

\* C28: the series a request produces, and the generator state it leaves,
\* are those of the same request (same requestId, clock value and
\* parameters) on a unit that never ran a request before: they do not
\* depend on what the unit generated earlier.
C28_Deterministic ==
    genRequest # NoGenRequest =>
        LET G == generateSeries(InitialRng, genRequest)
        IN  /\ genSeries = G.series
            /\ genRng = G.rng
            /\ Len(genSeries) = genRequest.points * genRequest.lines

C28_Witness ==
    /\ genWarm
    /\ genRequest.curveType = "randomWalk"
    /\ genRequest.lines = 2
    /\ Len(genSeries) = 22
    /\ Len(genSeries[22].walk) = 11

\* ------------------------------------------------------- the panel's claims
\* nothing is left to happen for the rendered panel: no callback is waiting
\* and no request is in flight
PanelQuiescent ==
    /\ panel.isMounted /\ panel.container
    /\ panel.timeouts = 0
    /\ panel.requests = {}

\* C38: after a parameter change the panel ends up showing data generated
\* with the latest parameters: once nothing is left to happen and the panel's
\* last request succeeded, the plot's data was generated with the current
\* parameters.
C38_ShowsLatestParams ==
    (PanelQuiescent /\ panel.outcome = "success") => panel.shown = panel.params

\* C39: the panel has at most one generatePoints request outstanding, the
\* in-progress flag is set exactly while one is, and the continuation of a
\* settled future clears the flag on each of its paths (success, stale
\* result, missing container, rejection).
C39_OneRequestFlagCleared ==
    /\ Cardinality(panel.requests) <= 1
    /\ panel.isRegenerating <=> panel.requests # {}
    /\ \A q \in panel.requests :
           /\ ~onFulfilled(panel, q).isRegenerating
           /\ ~onRejected(panel, q).isRegenerating

\* a future settled while the panel was being removed, and regeneration is
\* open again
C39_Witness ==
    /\ panel.outcome = "nocontainer"
    /\ ~panel.isRegenerating
    /\ panel.requests = {}
    /\ panel.runToken >= 2
====
